---- MODULE Spec2Model ----
(***************************************************************************)
(* A model of the object store of src/src/objects.rs: the header codec,    *)
(* the zlib layer, HashWriter, Object::read, Object::write and             *)
(* Object::write_to_objects, run by concurrent invocations against one     *)
(* working directory.                                                      *)
(*                                                                         *)
(* Bytes are naturals 0..255 and byte strings are sequences of them.       *)
(* A file is an inode holding a sequence of octets / deflate code words;   *)
(* a directory entry (the path "temporary", a path under .git/objects)     *)
(* names an inode, and an open file handle keeps its inode whatever        *)
(* happens to the entry, as on POSIX.                                      *)
(***************************************************************************)
EXTENDS Integers, Sequences, FiniteSets, TLC

(* ------------------------------ bounds --------------------------------- *)

\* Longest payload, in bytes.
MaxLen == 1

\* Operations (reads and writes together) started in one behaviour.
MaxOps == 2

(* --------------------------- byte strings ------------------------------ *)

Min(a, b) == IF a <= b THEN a ELSE b

Take(s, n) == SubSeq(s, 1, Min(n, Len(s)))

Drop(s, n) == SubSeq(s, n + 1, Len(s))

Range(s) == {s[i] : i \in 1..Len(s)}

\* Index of the first element of s equal to b, 0 when there is none.
IndexOf(s, b) ==
    IF \E i \in 1..Len(s) : s[i] = b
    THEN CHOOSE i \in 1..Len(s) : s[i] = b /\ \A j \in 1..(i - 1) : s[j] # b
    ELSE 0

RECURSIVE SeqsUpTo(_, _)
SeqsUpTo(S, n) ==
    IF n = 0 THEN {<<>>}
    ELSE LET shorter == SeqsUpTo(S, n - 1)
         IN  shorter \cup {Append(s, b) : s \in shorter, b \in S}

(* ------------------------------- Kind ---------------------------------- *)

Kinds == {"Blob", "Tree", "Commit"}

\* impl fmt::Display for Kind: the lowercase ASCII token.
KindToken(k) ==
    CASE k = "Blob"   -> <<98, 108, 111, 98>>
      [] k = "Tree"   -> <<116, 114, 101, 101>>
      [] k = "Commit" -> <<99, 111, 109, 109, 105, 116>>

(* ---------------------------- header codec ----------------------------- *)

\* The decimal rendering of a u64 ({} in write!): ASCII digits, no sign, no padding.
RECURSIVE Decimal(_)
Decimal(n) ==
    IF n < 10 THEN <<48 + n>>
    ELSE Append(Decimal(n \div 10), 48 + (n % 10))

\* write!(writer, "{} {}\0", self.kind, self.expected_size)
EncodeHeader(k, n) == KindToken(k) \o <<32>> \o Decimal(n) \o <<0>>

IsDigit(b) == b >= 48 /\ b <= 57

RECURSIVE DigitsValue(_)
DigitsValue(ds) ==
    IF ds = <<>> THEN 0
    ELSE 10 * DigitsValue(SubSeq(ds, 1, Len(ds) - 1)) + (ds[Len(ds)] - 48)

RECURSIVE StripZeros(_)
StripZeros(ds) ==
    IF Len(ds) > 1 /\ ds[1] = 48 THEN StripZeros(Tail(ds)) ELSE ds

\* u64::MAX = 18446744073709551615, as digits.
U64MaxDigits ==
    <<49, 56, 52, 52, 54, 55, 52, 52, 48, 55, 51, 55, 48, 57, 53, 53, 49, 54, 49, 53>>

\* a > b for two digit strings of the same length.
DigitsGreater(a, b) ==
    \E i \in 1..Len(a) :
        /\ a[i] > b[i]
        /\ \A j \in 1..(i - 1) : a[j] = b[j]

\* Digit strings whose value fits the integers of the model checker.
MaxDigits == 9

\* str::parse::<u64>: an optional '+', then one or more ASCII digits, the
\* value at most u64::MAX. Yields [ok |-> TRUE, val |-> n] or [ok |-> FALSE].
\* A value of more than MaxDigits digits that fits u64 is reported as its
\* digit string (val is then a sequence).
ParseU64(s) ==
    LET ds == IF s # <<>> /\ s[1] = 43 THEN Tail(s) ELSE s
        z  == StripZeros(ds)
    IN  IF ds = <<>> \/ \E i \in 1..Len(ds) : ~IsDigit(ds[i])
        THEN [ok |-> FALSE]
        ELSE IF Len(z) > Len(U64MaxDigits)
                \/ (Len(z) = Len(U64MaxDigits) /\ DigitsGreater(z, U64MaxDigits))
        THEN [ok |-> FALSE]
        ELSE IF Len(z) > MaxDigits
        THEN [ok |-> TRUE, val |-> z]
        ELSE [ok |-> TRUE, val |-> DigitsValue(z)]

\* str::from_utf8 on the octets the model uses: ASCII is valid, 0xFF never is.
ValidUtf8(s) == \A i \in 1..Len(s) : s[i] < 128

\* DecodeHeader, were the header read up to the last NUL of the stream.
DecodeHeaderGreedy(stream) ==
    LET nul  == IF \E i \in 1..Len(stream) : stream[i] = 0
                THEN CHOOSE i \in 1..Len(stream) :
                        stream[i] = 0 /\ \A j \in (i + 1)..Len(stream) : stream[j] # 0
                ELSE 0
        text == SubSeq(stream, 1, IndexOf(stream, 0) - 1)
        sp   == IndexOf(text, 32)
        tok  == SubSeq(text, 1, sp - 1)
        size == ParseU64(Drop(text, sp))
    IN  IF nul = 0 THEN [st |-> "panic"]
        ELSE IF sp = 0 \/ (\A k \in Kinds : KindToken(k) # tok) \/ ~size.ok
             THEN [st |-> "err", err |-> "Malformed", at |-> "split_once"]
        ELSE [st   |-> "ok",
              kind |-> CHOOSE k \in Kinds : KindToken(k) = tok,
              size |-> size.val,
              rest |-> Drop(stream, nul)]

\* DecodeHeader, were the size parsed before the kind is matched.
DecodeHeaderSizeFirst(stream) ==
    LET nul  == IndexOf(stream, 0)
        text == SubSeq(stream, 1, nul - 1)
        sp   == IndexOf(text, 32)
        tok  == SubSeq(text, 1, sp - 1)
        size == ParseU64(Drop(text, sp))
    IN  IF nul = 0 THEN [st |-> "panic"]
        ELSE IF ~ValidUtf8(text)
             THEN [st |-> "err", err |-> "Malformed", at |-> "to_str"]
        ELSE IF sp = 0
             THEN [st |-> "err", err |-> "Malformed", at |-> "split_once"]
        ELSE IF ~size.ok
             THEN [st |-> "err", err |-> "InvalidSize", at |-> "parse"]
        ELSE IF \A k \in Kinds : KindToken(k) # tok
             THEN [st |-> "err", err |-> "UnknownKind", at |-> "match kind"]
        ELSE [st   |-> "ok",
              kind |-> CHOOSE k \in Kinds : KindToken(k) = tok,
              size |-> size.val,
              rest |-> Drop(stream, nul)]

\* The header steps of Object::read on the decompressed stream `stream`:
\* read_until(0), CStr::from_bytes_with_nul(..).expect(..), to_str,
\* split_once(' '), the kind match, parse::<u64>.
\*   [st |-> "ok", kind, size, rest]  the header decoded; rest follows the NUL
\*   [st |-> "panic"]                 expect() on a buffer not ending in NUL
\*   [st |-> "err", err |-> e, at]    an anyhow error returned to the caller:
\*                                    its class, and the step that raised it
DecodeHeader(stream) ==
    LET nul  == IndexOf(stream, 0)
        buf  == IF nul = 0 THEN stream ELSE SubSeq(stream, 1, nul)
        text == SubSeq(buf, 1, Len(buf) - 1)
        sp   == IndexOf(text, 32)
        tok  == SubSeq(text, 1, sp - 1)
        size == ParseU64(Drop(text, sp))
    IN  IF nul = 0 THEN [st |-> "panic"]
        ELSE IF ~ValidUtf8(text)
             THEN [st |-> "err", err |-> "Malformed", at |-> "to_str"]
        ELSE IF sp = 0
             THEN [st |-> "err", err |-> "Malformed", at |-> "split_once"]
        ELSE IF \A k \in Kinds : KindToken(k) # tok
             THEN [st |-> "err", err |-> "UnknownKind", at |-> "match kind"]
        ELSE IF ~size.ok
             THEN [st |-> "err", err |-> "InvalidSize", at |-> "parse"]
        ELSE [st   |-> "ok",
              kind |-> CHOOSE k \in Kinds : KindToken(k) = tok,
              size |-> size.val,
              rest |-> Drop(stream, nul)]

(* ------------------------------ zlib ----------------------------------- *)

\* Adler-32 of a byte string, as its four big-endian octets.
RECURSIVE AdlerA(_)
AdlerA(bs) ==
    IF bs = <<>> THEN 1
    ELSE (AdlerA(SubSeq(bs, 1, Len(bs) - 1)) + bs[Len(bs)]) % 65521

RECURSIVE AdlerB(_)
AdlerB(bs) ==
    IF bs = <<>> THEN 0
    ELSE (AdlerB(SubSeq(bs, 1, Len(bs) - 1)) + AdlerA(bs)) % 65521

Adler32(bs) ==
    <<AdlerB(bs) \div 256, AdlerB(bs) % 256, AdlerA(bs) \div 256, AdlerA(bs) % 256>>

\* The deflate code word of a literal byte: the code words are kept apart
\* from the octets they stand for.
Literal(b) == 256 + b

IsLiteral(c) == c >= 256 /\ c < 512

\* ZlibEncoder at Compression::default(): the two-octet zlib header, then the
\* code words of the bytes taken in so far.
Deflated(bs) == <<120, 156>> \o [i \in 1..Len(bs) |-> Literal(bs[i])]

\* What finish() completes the stream with: end of block, then the Adler-32.
Trailer(bs) == <<512>> \o Adler32(bs)

\* The complete stream a successful ZlibEncoder::finish() leaves in its sink.
Compress(bs) == Deflated(bs) \o Trailer(bs)

\* Length of the longest prefix of code words of cs that are literals.
RECURSIVE LiteralRun(_)
LiteralRun(cs) ==
    IF cs = <<>> \/ ~IsLiteral(cs[1]) THEN 0 ELSE 1 + LiteralRun(Tail(cs))

\* ZlibDecoder over a file holding `file`, read to its end through BufReader
\* (the file fits one buffer, so it is inflated in one pass):
\*   [ok |-> FALSE]               "corrupt deflate stream" (an io::Error)
\*   [ok |-> TRUE, data |-> bs]   the bytes produced; a stream cut short before
\*                                its end yields what it holds and then a plain
\*                                end of file, with no error; bytes after the
\*                                trailer are ignored.
Inflate(file) ==
    LET hdr  == Take(file, 2)
        body == Drop(file, 2)
        n    == LiteralRun(body)
        data == [i \in 1..n |-> body[i] - 256]
        tail == Drop(body, n)
    IN  IF hdr # Take(<<120, 156>>, Len(hdr)) THEN [ok |-> FALSE]
        ELSE IF tail = <<>> THEN [ok |-> TRUE, data |-> data]
        ELSE IF tail[1] # 512 THEN [ok |-> FALSE]
        ELSE IF Take(Tail(tail), 4) # Take(Adler32(data), Len(Tail(tail)))
             THEN [ok |-> FALSE]
        ELSE [ok |-> TRUE, data |-> data]

(* ------------------------------ digest --------------------------------- *)

\* [u8; 20]
DigestLen == 20

\* Sha1 stands for SHA-1 as a collision-free function into 20 octets: the
\* input (shorter than 20) padded with zeros, its length in the last octet.
Sha1(bs) ==
    [i \in 1..DigestLen |->
        IF i = DigestLen THEN Len(bs)
        ELSE IF i <= Len(bs) THEN bs[i] % 256
        ELSE 0]

HexChars ==
    <<"0", "1", "2", "3", "4", "5", "6", "7", "8", "9", "a", "b", "c", "d", "e", "f">>

\* hex::encode: two lowercase hex digits per octet, high nibble first.
HexEncode(d) ==
    [i \in 1..(2 * Len(d)) |->
        IF i % 2 = 1 THEN HexChars[(d[(i + 1) \div 2] \div 16) + 1]
        ELSE HexChars[(d[i \div 2] % 16) + 1]]

\* format!(".git/objects/{}/{}", &hash[..2], &hash[2..])
ObjectPath(hex) == <<SubSeq(hex, 1, 2), Drop(hex, 2)>>

\* format!(".git/objects/{}/", &hash_hex[..2])
ObjectDir(hex) == SubSeq(hex, 1, 2)

(* ------------------------------ state ---------------------------------- *)

\* The concurrent invocations (separate command executions).
Procs == {1, 2}

\* The payloads written: every string of at most MaxLen NUL bytes (the byte
\* the header ends with).
Payloads == SeqsUpTo({0}, MaxLen)

InodeIds == 1..MaxOps

VARIABLES
    proc,      \* proc[p]: the invocation p, its position and its locals
    inode,     \* inode[i]: the content of file i
    temporary, \* the inode the path "temporary" names, 0 when it is absent
    store,     \* the paths under .git/objects that exist, each with its inode
    dirs,      \* the subdirectories of .git/objects that exist
    ops,       \* operations started so far
    returned,  \* the store-mode writes that returned Ok: (hash, kind, payload)
    workfile,  \* the content of the file hash-object is run on
    hdr,       \* the header codec on its own: the bytes decoded, the outcome
    hw         \* a HashWriter on its own, over a writer that may take less or fail

vars == <<proc, inode, temporary, store, dirs, ops, returned, workfile, hdr, hw>>

NoRes == [st |-> "none"]

\* The header codec is not being run on its own.
NoHeader ==
    [input |-> [tok |-> <<>>, sep |-> <<>>, size |-> <<>>, term |-> <<>>, tail |-> <<>>],
     out   |-> NoRes]

\* No HashWriter is being run on its own.
NoWriter ==
    [st |-> "none", hasher |-> <<>>, taken |-> <<>>, buf |-> <<>>, calls |-> 0,
     short |-> FALSE, failed |-> FALSE]

\* An invocation that runs nothing.
Idle ==
    [pc |-> "idle", op |-> "none", kind |-> "Blob", expected_size |-> 0,
     reader |-> <<>>, from_file |-> FALSE, copied |-> <<>>, hasher |-> <<>>, zin |-> <<>>, emitted |-> 0, fd |-> 0,
     tmp |-> "", staged |-> 0, hash |-> <<>>, key |-> <<>>, limit |-> 0, rest |-> <<>>,
     got |-> <<>>, res |-> NoRes, during |-> FALSE, after |-> FALSE,
     before |-> <<>>, pretty_print |-> FALSE, stdout |-> <<>>]

\* The key Object::write yields for (kind, payload) with the size declared as
\* the payload's length.
KeyOf(k, c) == HexEncode(Sha1(EncodeHeader(k, Len(c)) \o c))

\* The keys a read is issued for: the keys of the objects that can be written.
ReadKeys == {KeyOf(k, c) : k \in Kinds, c \in Payloads}

(* ---------------------------- file system ------------------------------ *)

Referenced(i, t, s, pr) ==
    \/ t = i
    \/ \E path \in DOMAIN s : s[path] = i
    \/ \E p \in Procs : pr[p].fd = i

\* A file with no directory entry and no open handle is gone.
Sweep(ino, t, s, pr) ==
    [i \in InodeIds |-> IF Referenced(i, t, s, pr) THEN ino[i] ELSE <<>>]

FreeInode ==
    CHOOSE i \in InodeIds :
        /\ ~Referenced(i, temporary, store, proc)
        /\ \A j \in 1..(i - 1) : Referenced(j, temporary, store, proc)

\* write(2) of `bytes` at offset `off` of a file holding `content`; a write
\* past the end leaves a hole of zero octets.
WriteAt(content, off, bytes) ==
    LET n == IF off + Len(bytes) > Len(content) THEN off + Len(bytes) ELSE Len(content)
    IN  [i \in 1..n |->
            IF i > off /\ i <= off + Len(bytes) THEN bytes[i - off]
            ELSE IF i <= Len(content) THEN content[i]
            ELSE 0]

\* rename(2) onto `path`: the entry names inode i, whatever it named before.
Bind(s, path, i) ==
    [x \in DOMAIN s \cup {path} |-> IF x = path THEN i ELSE s[x]]

Init ==
    /\ proc = [p \in Procs |-> Idle]
    /\ inode = [i \in InodeIds |-> <<>>]
    /\ temporary = 0
    /\ store = <<>>
    /\ dirs = {}
    /\ ops = 0
    /\ returned = {}
    /\ workfile = <<>>
    /\ hdr = NoHeader
    /\ hw = NoWriter

(* ----------------------------- HashWriter ------------------------------ *)

\* HashWriterWrite, were the hasher fed what the encoder puts out.
HashWriterBelowEncoder(hasher, buf, n) ==
    (IF hasher = <<>> THEN <<120, 156>> ELSE hasher) \o [i \in 1..n |-> Literal(buf[i])]

\* HashWriter::write(buf) when the writer below it took n bytes: the hasher is
\* updated with buf[..n].
HashWriterWrite(hasher, buf, n) == hasher \o SubSeq(buf, 1, n)

\* writer.hasher.finalize()
Finalize(hasher) == Sha1(hasher)

\* The stream ZlibEncoder has handed to its sink once finish() returned.
FinishedStream(zin) == Compress(zin)

(* -------------------------- Object::write ------------------------------ *)

\* What the paths under .git/objects hold.
CanonicalView == [path \in DOMAIN store |-> inode[store[path]]]

\* let tmp = "temporary";
StagingPath == "temporary"

\* Invocations are interchangeable: a new one takes the lowest free slot.
Free(p) ==
    /\ proc[p].pc = "idle"
    /\ \A q \in Procs : q < p => proc[q].pc # "idle"

\* Invocation p begins as `r`; an invocation that has ended is gone with its
\* outcome (a process that exited).
Launch(p, r) ==
    [q \in Procs |->
        IF q = p THEN r
        ELSE IF proc[q].pc = "idle" THEN Idle
        ELSE proc[q]]

StoreInProgress(q) == proc[q].op = "write_to_objects" /\ proc[q].pc # "idle"

\* The locals an operation leaves behind are those its outcome is read from.
Finished(r, res) ==
    [r EXCEPT !.pc = "idle", !.fd = 0, !.hasher = <<>>, !.zin = <<>>,
              !.emitted = 0, !.rest = <<>>, !.limit = 0, !.res = res]

\* Object { kind, expected_size, reader }.write_to_objects()
StartStore(p, k, c) ==
    /\ Free(p)
    /\ ops < MaxOps
    /\ ops' = ops + 1
    /\ proc' = Launch(p, [Idle EXCEPT !.pc = "create", !.op = "write_to_objects",
                                      !.kind = k, !.expected_size = Len(c),
                                      !.reader = c, !.tmp = StagingPath,
                                      !.before = CanonicalView])
    /\ UNCHANGED <<inode, temporary, store, dirs, returned, workfile, hdr, hw>>

\* Object { kind, expected_size, reader }.write(std::io::sink())
StartSink(p, k, c) ==
    /\ Free(p)
    /\ ops < MaxOps
    /\ ops' = ops + 1
    /\ proc' = Launch(p, [Idle EXCEPT !.pc = "header", !.op = "write",
                                      !.kind = k, !.expected_size = Len(c),
                                      !.reader = c])
    /\ UNCHANGED <<inode, temporary, store, dirs, returned, workfile, hdr, hw>>

\* Create, were the file made at the object's own path, with no staging.
CreateInPlace(p) ==
    /\ proc[p].pc = "create"
    /\ LET path == ObjectPath(KeyOf(proc[p].kind, proc[p].reader))
           i    == IF path \in DOMAIN store THEN store[path] ELSE FreeInode
       IN  /\ store' = Bind(store, path, i)
           /\ inode' = [inode EXCEPT ![i] = <<>>]
           /\ proc' = [proc EXCEPT ![p].fd = i, ![p].staged = i, ![p].pc = "header"]
    /\ UNCHANGED <<temporary, dirs, ops, returned, workfile, hdr, hw>>

\* std::fs::File::create(tmp): the file the path names is truncated, or a new
\* one is made; the handle writes from offset 0.
Create(p) ==
    /\ proc[p].pc = "create"
    /\ LET i == IF temporary # 0 THEN temporary ELSE FreeInode
       IN  /\ temporary' = i
           /\ inode' = [inode EXCEPT ![i] = <<>>]
           /\ proc' = [proc EXCEPT ![p].fd = i, ![p].staged = i, ![p].pc = "header"]
    /\ UNCHANGED <<store, dirs, ops, returned, workfile, hdr, hw>>

\* One write_all through HashWriter into ZlibEncoder: the encoder takes all of
\* buf and hands its sink the output for it (a file being written holds a
\* prefix of its final content).
Feed(p, buf, next, copied) ==
    LET r   == proc[p]
        zin == r.zin \o buf
        e   == Len(Deflated(zin))
    IN      /\ proc' = [proc EXCEPT ![p] =
                    [r EXCEPT !.pc = next,
                              !.copied = copied,
                              !.hasher = HashWriterWrite(r.hasher, buf, Len(buf)),
                              !.zin = zin,
                              !.emitted = e]]
            /\ inode' = IF r.fd = 0 THEN inode
                        ELSE [inode EXCEPT ![r.fd] =
                                WriteAt(@, r.emitted,
                                        SubSeq(Deflated(zin), r.emitted + 1, e))]

\* write!(writer, "{} {}\0", self.kind, self.expected_size)?
WriteHeader(p) ==
    /\ proc[p].pc = "header"
    /\ Feed(p, EncodeHeader(proc[p].kind, proc[p].expected_size), "stream", <<>>)
    /\ UNCHANGED <<temporary, store, dirs, ops, returned, workfile, hdr, hw>>

\* std::io::copy(&mut self.reader, &mut writer): every byte the reader yields.
Stream(p) ==
    /\ proc[p].pc = "stream"
    /\ LET bytes == IF proc[p].from_file THEN workfile ELSE proc[p].reader
       IN  Feed(p, bytes, "finish", bytes)
    /\ UNCHANGED <<temporary, store, dirs, ops, returned, workfile, hdr, hw>>

\* writer.writer.finish()?, writer.hasher.finalize(): the rest of the stream
\* reaches the sink, which is dropped (the file is closed). Into a sink, write
\* returns here.
Finish(p) ==
    /\ proc[p].pc = "finish"
    /\ LET r   == proc[p]
           out == FinishedStream(r.zin)
           h   == Finalize(r.hasher)
           ino == IF r.fd = 0 THEN inode
                  ELSE [inode EXCEPT ![r.fd] =
                          WriteAt(@, r.emitted, SubSeq(out, r.emitted + 1, Len(out)))]
       IN  /\ proc' = [proc EXCEPT ![p] =
                   IF r.op = "write"
                   THEN [Finished(r, [st |-> "ok", hash |-> h]) EXCEPT !.hash = h]
                   ELSE [Finished(r, NoRes) EXCEPT !.pc = "mkdir", !.hash = h]]
           /\ inode' = Sweep(ino, temporary, store, proc')
    /\ UNCHANGED <<temporary, store, dirs, ops, returned, workfile, hdr, hw>>

\* fs::create_dir_all(format!(".git/objects/{}/", &hash_hex[..2]))
MkDir(p) ==
    /\ proc[p].pc = "mkdir"
    /\ dirs' = dirs \cup {ObjectDir(HexEncode(proc[p].hash))}
    /\ proc' = [proc EXCEPT ![p].pc = "rename"]
    /\ UNCHANGED <<inode, temporary, store, ops, returned, workfile, hdr, hw>>

\* Rename, were the staged file copied to the object's path and left behind.
RenameCopies(p) ==
    /\ proc[p].pc = "rename"
    /\ LET r == proc[p]
       IN  IF temporary = 0
           THEN /\ proc' = [proc EXCEPT ![p] =
                        Finished(r, [st |-> "err", err |-> "IOFailure", at |-> "rename"])]
                /\ UNCHANGED <<inode, temporary, store, returned>>
           ELSE /\ store' = Bind(store, ObjectPath(HexEncode(r.hash)), temporary)
                /\ temporary' = temporary
                /\ proc' = [proc EXCEPT ![p] =
                        Finished(r, [st |-> "ok", hash |-> r.hash])]
                /\ returned' = returned \cup
                        {[hash |-> r.hash, kind |-> r.kind, payload |-> r.copied]}
                /\ inode' = Sweep(inode, temporary', store', proc')
    /\ UNCHANGED <<dirs, ops, workfile, hdr, hw>>

\* fs::rename(tmp, format!(".git/objects/{}/{}", ..)): the entry "temporary"
\* becomes the entry of the object's path in one step; with no "temporary"
\* there is nothing to move and the write fails.
Rename(p) ==
    /\ proc[p].pc = "rename"
    /\ LET r == proc[p]
       IN  IF temporary = 0
           THEN /\ proc' = [proc EXCEPT ![p] =
                        Finished(r, [st |-> "err", err |-> "IOFailure", at |-> "rename"])]
                /\ UNCHANGED <<inode, temporary, store, returned>>
           ELSE /\ store' = Bind(store, ObjectPath(HexEncode(r.hash)), temporary)
                /\ temporary' = 0
                /\ proc' = [proc EXCEPT ![p] =
                        Finished(r, [st |-> "ok", hash |-> r.hash])]
                /\ returned' = returned \cup
                        {[hash |-> r.hash, kind |-> r.kind, payload |-> r.copied]}
                /\ inode' = Sweep(inode, temporary', store', proc')
    /\ UNCHANGED <<dirs, ops, workfile, hdr, hw>>

\* The steps of a write that can fail on I/O: each `?` returns the error at
\* once, dropping the file handle. Into a sink only the reader can fail.
FailAt(p) ==
    IF proc[p].op = "write" THEN {"stream"}
    ELSE {"create", "header", "stream", "finish", "mkdir", "rename"}

\* Fail, were the staged file moved into .git/objects all the same.
FailPublishes(p) ==
    /\ proc[p].op \in {"write", "write_to_objects"}
    /\ proc[p].pc \in FailAt(p)
    /\ proc' = [proc EXCEPT ![p] =
            Finished(proc[p], [st |-> "err", err |-> "IOFailure", at |-> proc[p].pc])]
    /\ store' = IF temporary = 0 THEN store
                ELSE Bind(store, ObjectPath(HexEncode(Finalize(proc[p].hasher))), temporary)
    /\ temporary' = 0
    /\ inode' = Sweep(inode, temporary', store', proc')
    /\ UNCHANGED <<dirs, ops, returned, workfile, hdr, hw>>

Fail(p) ==
    /\ proc[p].op \in {"write", "write_to_objects"}
    /\ proc[p].pc \in FailAt(p)
    /\ proc' = [proc EXCEPT ![p] =
            Finished(proc[p], [st |-> "err", err |-> "IOFailure", at |-> proc[p].pc])]
    /\ inode' = Sweep(inode, temporary, store, proc')
    /\ UNCHANGED <<temporary, store, dirs, ops, returned, workfile, hdr, hw>>

(* ----------------------------- hash-object ----------------------------- *)

\* StartHashObject, were the object staged in "temporary" with or without -w.
StartHashObjectStaging(p, w) ==
    /\ Free(p)
    /\ ops < MaxOps
    /\ ops' = ops + 1
    /\ proc' = Launch(p, [Idle EXCEPT !.pc = "create",
                                      !.op = IF w THEN "write_to_objects" ELSE "write",
                                      !.kind = "Blob",
                                      !.expected_size = Len(workfile),
                                      !.from_file = TRUE,
                                      !.tmp = StagingPath,
                                      !.before = CanonicalView])
    /\ UNCHANGED <<inode, temporary, store, dirs, returned, workfile, hdr, hw>>

\* hash_object::execute(write, file): Object::blob_from_file takes the size
\* from the file's metadata and opens the file; write_to_objects with -w,
\* write(std::io::sink()) without.
StartHashObject(p, w) ==
    /\ Free(p)
    /\ ops < MaxOps
    /\ ops' = ops + 1
    /\ proc' = Launch(p, [Idle EXCEPT !.pc = IF w THEN "create" ELSE "header",
                                      !.op = IF w THEN "write_to_objects" ELSE "write",
                                      !.kind = "Blob",
                                      !.expected_size = Len(workfile),
                                      !.from_file = TRUE,
                                      !.tmp = IF w THEN StagingPath ELSE "",
                                      !.before = CanonicalView])
    /\ UNCHANGED <<inode, temporary, store, dirs, returned, workfile, hdr, hw>>

\* Another process rewrites the file hash-object was given.
ModifyFile(c) ==
    /\ c # workfile
    /\ workfile' = c
    /\ UNCHANGED <<proc, inode, temporary, store, dirs, ops, returned, hdr, hw>>

(* --------------------------- Object::read ------------------------------ *)

\* Longest read the consumer of the object's reader asks for, in bytes.
MaxChunk == 2

\* Object::read(hash), then the reader it returns read to its end.
StartRead(p, key) ==
    /\ Free(p)
    /\ ops < MaxOps
    /\ ops' = ops + 1
    /\ proc' = Launch(p,
            [Idle EXCEPT !.pc = "open", !.op = "read", !.key = key,
                         !.during = \E q \in Procs :
                                        /\ StoreInProgress(q)
                                        /\ KeyOf(proc[q].kind, proc[q].reader) = key,
                         !.after = \E w \in returned : HexEncode(w.hash) = key])
    /\ UNCHANGED <<inode, temporary, store, dirs, returned, workfile, hdr, hw>>

\* std::fs::File::open(format!(".git/objects/{}/{}", &hash[..2], &hash[2..])):
\* slicing a key of fewer than two characters panics.
Open(p) ==
    /\ proc[p].pc = "open"
    /\ LET path == ObjectPath(proc[p].key)
       IN  proc' = [proc EXCEPT ![p] =
               IF Len(proc[p].key) < 2 THEN Finished(@, [st |-> "panic"])
               ELSE IF path \in DOMAIN store
               THEN [@ EXCEPT !.pc = "decode", !.fd = store[path]]
               ELSE Finished(@, [st |-> "err", err |-> "NotFound", at |-> "open"])]
    /\ UNCHANGED <<inode, temporary, store, dirs, ops, returned, workfile, hdr, hw>>

\* ZlibDecoder, BufReader, the header steps, z.take(size)
ReadHeader(p) ==
    /\ proc[p].pc = "decode"
    /\ LET r == proc[p]
           z == Inflate(inode[r.fd])
           h == DecodeHeader(z.data)
       IN  proc' = [proc EXCEPT ![p] =
               IF ~z.ok THEN Finished(r, [st |-> "err", err |-> "IOFailure", at |-> "decode"])
               ELSE IF h.st = "panic" THEN Finished(r, [st |-> "panic"])
               ELSE IF h.st = "err" THEN Finished(r, h)
               ELSE [r EXCEPT !.pc = "payload", !.kind = h.kind,
                              !.expected_size = h.size, !.limit = h.size,
                              !.rest = h.rest]]
    /\ inode' = Sweep(inode, temporary, store, proc')
    /\ UNCHANGED <<temporary, store, dirs, ops, returned, workfile, hdr, hw>>

\* ReadPayload, were the reader handed out without take(size).
ReadPayloadUnbounded(p, c) ==
    /\ proc[p].pc = "payload"
    /\ LET r == proc[p]
           n == Min(c, Len(r.rest))
       IN  proc' = [proc EXCEPT ![p] =
               IF n = 0
               THEN Finished(r, [st |-> "ok", kind |-> r.kind,
                                 size |-> r.expected_size, bytes |-> r.got])
               ELSE [r EXCEPT !.got = r.got \o Take(r.rest, n),
                              !.rest = Drop(r.rest, n),
                              !.limit = r.limit - n]]
    /\ inode' = Sweep(inode, temporary, store, proc')
    /\ UNCHANGED <<temporary, store, dirs, ops, returned, workfile, hdr, hw>>

\* Take::read into a buffer of c bytes: at most the limit, at most what is
\* left of the stream; 0 is the end of the reader.
ReadPayload(p, c) ==
    /\ proc[p].pc = "payload"
    /\ LET r == proc[p]
           n == Min(c, Min(r.limit, Len(r.rest)))
       IN  proc' = [proc EXCEPT ![p] =
               IF n = 0
               THEN Finished(r, [st |-> "ok", kind |-> r.kind,
                                 size |-> r.expected_size, bytes |-> r.got])
               ELSE [r EXCEPT !.got = r.got \o Take(r.rest, n),
                              !.rest = Drop(r.rest, n),
                              !.limit = r.limit - n]]
    /\ inode' = Sweep(inode, temporary, store, proc')
    /\ UNCHANGED <<temporary, store, dirs, ops, returned, workfile, hdr, hw>>

(* -------------------------- specifications ----------------------------- *)

WriteToObjects == \E p \in Procs, k \in Kinds, c \in Payloads : StartStore(p, k, c)

WriteToSink == \E p \in Procs, k \in Kinds, c \in Payloads : StartSink(p, k, c)

Read == \E p \in Procs, key \in ReadKeys : StartRead(p, key)

WriteStep ==
    \E p \in Procs :
        \/ Create(p)
        \/ WriteHeader(p)
        \/ Stream(p)
        \/ Finish(p)
        \/ MkDir(p)
        \/ Rename(p)
        \/ Fail(p)

ReadStep ==
    \E p \in Procs :
        \/ Open(p)
        \/ ReadHeader(p)
        \/ \E c \in 1..MaxChunk : ReadPayload(p, c)

\* Invocations run concurrently, with no coordination between them.
Next == WriteToObjects \/ Read \/ WriteStep \/ ReadStep

Spec == Init /\ [][Next]_vars

\* One store-mode write at a time (no two invocations of write_to_objects
\* overlap); reads and writes into a sink run beside it.
WriteToObjectsAlone ==
    /\ \A q \in Procs : ~StoreInProgress(q)
    /\ \E p \in Procs, k \in Kinds, c \in Payloads : StartStore(p, k, c)

NextSeq == WriteToObjectsAlone \/ WriteToSink \/ Read \/ WriteStep \/ ReadStep

SpecSeq == Init /\ [][NextSeq]_vars

\* hash-object, with and without -w, on a file other processes may rewrite.
InitHashObject ==
    /\ proc = [p \in Procs |-> Idle]
    /\ inode = [i \in InodeIds |-> <<>>]
    /\ temporary = 0
    /\ store = <<>>
    /\ dirs = {}
    /\ ops = 0
    /\ returned = {}
    /\ workfile \in Payloads
    /\ hdr = NoHeader
    /\ hw = NoWriter

HashObject == \E p \in Procs, w \in BOOLEAN : StartHashObject(p, w)

Modify == \E c \in Payloads : ModifyFile(c)

NextHashObject == HashObject \/ Modify \/ WriteStep

SpecHashObject == InitHashObject /\ [][NextHashObject]_vars

\* hash-object, with and without -w, on a file nothing else touches.
NextHashObjectAlone == HashObject \/ WriteStep

SpecHashObjectAlone == InitHashObject /\ [][NextHashObjectAlone]_vars

(* ----------------------- the header codec alone ------------------------ *)

\* Largest size encoded into a header.
MaxSize == 12

\* "widget", "", "blo", "Blob", and an octet that is not UTF-8.
OtherTokens ==
    {<<119, 105, 100, 103, 101, 116>>, <<>>, <<98, 108, 111>>,
     <<66, 108, 111, 98>>, <<255>>}

\* Size fields parse::<u64> takes: decimal digits, leading zeros ("007"), a
\* leading plus ("+5"), u64::MAX.
GoodSizes ==
    {Decimal(n) : n \in 0..MaxSize} \cup {<<48, 48, 55>>, <<43, 53>>, U64MaxDigits}

\* Size fields it refuses: "", "abc", "-1", "1 2", " 1", "5x", u64::MAX + 1.
BadSizes ==
    {<<>>, <<97, 98, 99>>, <<45, 49>>, <<49, 32, 50>>, <<32, 49>>, <<53, 120>>,
     [U64MaxDigits EXCEPT ![20] = 54]}

\* A decompressed stream in its parts: token, separator, size field,
\* terminator, and what follows.
HeaderInputs ==
    [tok  : {KindToken(k) : k \in Kinds} \cup OtherTokens,
     sep  : {<<32>>, <<>>},
     size : GoodSizes \cup BadSizes,
     term : {<<0>>, <<>>},
     tail : {<<>>, <<65, 0>>}]

StreamOf(i) == i.tok \o i.sep \o i.size \o i.term \o i.tail

InitHeader ==
    /\ proc = [p \in Procs |-> Idle]
    /\ inode = [i \in InodeIds |-> <<>>]
    /\ temporary = 0
    /\ store = <<>>
    /\ dirs = {}
    /\ ops = 0
    /\ returned = {}
    /\ workfile = <<>>
    /\ \E i \in HeaderInputs : hdr = [input |-> i, out |-> NoRes]
    /\ hw = NoWriter

\* The header steps of Object::read run on the stream.
Decode ==
    /\ hdr.out = NoRes
    /\ hdr' = [hdr EXCEPT !.out = DecodeHeader(StreamOf(hdr.input))]
    /\ UNCHANGED <<proc, inode, temporary, store, dirs, ops, returned, workfile, hw>>

NextHeader == Decode

SpecHeader == InitHeader /\ [][NextHeader]_vars

(* ------------------------ HashWriter alone ----------------------------- *)

\* Calls of write_all made on the HashWriter.
MaxCalls == 2

\* The buffers written.
HashWriterBufs == SeqsUpTo({65, 66}, MaxChunk) \ {<<>>}

\* A HashWriter over a writer that takes any prefix of what it is handed, or
\* fails: `hasher` is what the hasher was updated with, `taken` what the writer
\* below took, `buf` what the call under way has yet to write.
InitHashWriter ==
    /\ proc = [p \in Procs |-> Idle]
    /\ inode = [i \in InodeIds |-> <<>>]
    /\ temporary = 0
    /\ store = <<>>
    /\ dirs = {}
    /\ ops = 0
    /\ returned = {}
    /\ workfile = <<>>
    /\ hdr = NoHeader
    /\ hw = [NoWriter EXCEPT !.st = "idle"]

\* The caller starts write_all(b) on the HashWriter.
HashWriterWriteAll(b) ==
    /\ hw.st = "idle"
    /\ hw.calls < MaxCalls
    /\ hw' = [hw EXCEPT !.st = "writing", !.buf = b, !.calls = @ + 1]
    /\ UNCHANGED <<proc, inode, temporary, store, dirs, ops, returned, workfile, hdr>>

\* HashWriterTakes, were the hasher updated with the whole of buf.
HashWriterTakesHashingAll(n) ==
    /\ hw.st = "writing"
    /\ n \in 0..Len(hw.buf)
    /\ hw' = [hw EXCEPT !.hasher = hw.hasher \o hw.buf,
                        !.taken = hw.taken \o SubSeq(hw.buf, 1, n),
                        !.buf = IF n = 0 THEN <<>> ELSE Drop(hw.buf, n),
                        !.st = IF n = 0 \/ n = Len(hw.buf) THEN "idle" ELSE "writing",
                        !.short = @ \/ n < Len(hw.buf),
                        !.failed = @ \/ n = 0]
    /\ UNCHANGED <<proc, inode, temporary, store, dirs, ops, returned, workfile, hdr>>

\* HashWriter::write(buf) where self.writer.write(buf) returns Ok(n): the
\* hasher is updated with buf[..n] and n is returned; write_all goes on with
\* buf[n..], or gives up on Ok(0).
HashWriterTakes(n) ==
    /\ hw.st = "writing"
    /\ n \in 0..Len(hw.buf)
    /\ hw' = [hw EXCEPT !.hasher = HashWriterWrite(hw.hasher, hw.buf, n),
                        !.taken = hw.taken \o SubSeq(hw.buf, 1, n),
                        !.buf = IF n = 0 THEN <<>> ELSE Drop(hw.buf, n),
                        !.st = IF n = 0 \/ n = Len(hw.buf) THEN "idle" ELSE "writing",
                        !.short = @ \/ n < Len(hw.buf),
                        !.failed = @ \/ n = 0]
    /\ UNCHANGED <<proc, inode, temporary, store, dirs, ops, returned, workfile, hdr>>

\* HashWriter::write(buf) where self.writer.write(buf)? is an error: it is
\* returned before the hasher is touched, and write_all returns it.
HashWriterFails ==
    /\ hw.st = "writing"
    /\ hw' = [hw EXCEPT !.buf = <<>>, !.st = "idle", !.failed = TRUE]
    /\ UNCHANGED <<proc, inode, temporary, store, dirs, ops, returned, workfile, hdr>>

NextHashWriter ==
    \/ \E b \in HashWriterBufs : HashWriterWriteAll(b)
    \/ \E n \in 0..MaxChunk : HashWriterTakes(n)
    \/ HashWriterFails

SpecHashWriter == InitHashWriter /\ [][NextHashWriter]_vars

(* ------------------- commands on a store as found ---------------------- *)

\* The key the object file of the store is asked for with.
StoredKey == KeyOf("Blob", <<>>)

\* The keys a command is given: the stored one, one of a single character,
\* one a character short, and one nothing is stored under.
FoundKeys == {StoredKey, Take(StoredKey, 1), Take(StoredKey, 39), KeyOf("Tree", <<>>)}

\* format!("./git/objects/{}/{}", &object_hash[..2], &object_hash[2..]): a
\* path outside .git/objects.
MainObjectPath(hex) == <<"./git/objects">> \o ObjectPath(hex)

\* The decompressed stream of the object file, in its parts: a header that is
\* well formed or not, declaring a size the payload may fall short of, match
\* or exceed.
FoundInputs ==
    [tok  : {KindToken("Blob"), KindToken("Tree"),
             <<119, 105, 100, 103, 101, 116>>, <<255>>},
     sep  : {<<32>>, <<>>},
     size : {Decimal(n) : n \in 0..(MaxLen + 1)} \cup {<<97, 98, 99>>},
     term : {<<0>>, <<>>},
     tail : SeqsUpTo({65, 66}, MaxLen + 1)]

\* The file as it lies on disk: the whole zlib stream, the stream cut before
\* its trailer, or bytes that are no zlib stream.
FoundFile(i, form) ==
    IF form = "whole" THEN Compress(StreamOf(i))
    ELSE IF form = "cut" THEN Deflated(StreamOf(i))
    ELSE <<0>> \o Compress(StreamOf(i))

\* A store holding one object file, under .git/objects or under ./git/objects,
\* on which one command is run.
InitFound ==
    /\ proc = [p \in Procs |-> Idle]
    /\ \E i \in FoundInputs, form \in {"whole", "cut", "corrupt"}, main \in BOOLEAN :
            /\ hdr = [input |-> i, out |-> NoRes]
            /\ inode = [n \in InodeIds |-> IF n = 1 THEN FoundFile(i, form) ELSE <<>>]
            /\ store = Bind(<<>>, IF main THEN MainObjectPath(StoredKey)
                                  ELSE ObjectPath(StoredKey), 1)
    /\ temporary = 0
    /\ dirs = {ObjectDir(StoredKey)}
    /\ ops = MaxOps - 1
    /\ returned = {}
    /\ workfile = <<>>
    /\ hw = NoWriter

ReadFound == \E p \in Procs, key \in FoundKeys : StartRead(p, key)

(* ------------------------------ cat-file ------------------------------- *)

\* The header steps of cat_file::execute on the decompressed stream: those of
\* Object::read, but for the kind, where only "blob" is taken.
CatDecodeHeader(stream) ==
    LET nul  == IndexOf(stream, 0)
        buf  == IF nul = 0 THEN stream ELSE SubSeq(stream, 1, nul)
        text == SubSeq(buf, 1, Len(buf) - 1)
        sp   == IndexOf(text, 32)
        tok  == SubSeq(text, 1, sp - 1)
        size == ParseU64(Drop(text, sp))
    IN  IF nul = 0 THEN [st |-> "panic"]
        ELSE IF ~ValidUtf8(text)
             THEN [st |-> "err", err |-> "Malformed", at |-> "to_str"]
        ELSE IF sp = 0
             THEN [st |-> "err", err |-> "Malformed", at |-> "split_once"]
        ELSE IF tok # KindToken("Blob")
             THEN [st |-> "err", err |-> "UnsupportedKind", at |-> "match kind"]
        ELSE IF ~size.ok
             THEN [st |-> "err", err |-> "InvalidSize", at |-> "parse"]
        ELSE [st   |-> "ok",
              kind |-> "Blob",
              size |-> size.val,
              rest |-> Drop(stream, nul)]

\* cat_file::execute(pretty_print, object_hash)
StartCatFile(p, pretty, key) ==
    /\ Free(p)
    /\ ops < MaxOps
    /\ ops' = ops + 1
    /\ proc' = Launch(p, [Idle EXCEPT !.pc = "cat_open", !.op = "cat-file",
                                      !.key = key, !.pretty_print = pretty])
    /\ UNCHANGED <<inode, temporary, store, dirs, returned, workfile, hdr, hw>>

\* ensure!(pretty_print, ..), then File::open of
\* .git/objects/{&object_hash[..2]}/{&object_hash[2..]}
CatOpen(p) ==
    /\ proc[p].pc = "cat_open"
    /\ LET path == ObjectPath(proc[p].key)
       IN  proc' = [proc EXCEPT ![p] =
               IF ~proc[p].pretty_print
               THEN Finished(@, [st |-> "err", err |-> "Usage", at |-> "ensure"])
               ELSE IF Len(proc[p].key) < 2 THEN Finished(@, [st |-> "panic"])
               ELSE IF path \in DOMAIN store
               THEN [@ EXCEPT !.pc = "cat_header", !.fd = store[path]]
               ELSE Finished(@, [st |-> "err", err |-> "NotFound", at |-> "open"])]
    /\ UNCHANGED <<inode, temporary, store, dirs, ops, returned, workfile, hdr, hw>>

\* CatHeader, were the stream copied to stdout before its header is judged.
CatHeaderCopiesFirst(p) ==
    /\ proc[p].pc = "cat_header"
    /\ LET r == proc[p]
           z == Inflate(inode[r.fd])
           h == CatDecodeHeader(z.data)
       IN  proc' = [proc EXCEPT ![p] =
               IF ~z.ok THEN Finished(r, [st |-> "err", err |-> "IOFailure", at |-> "decode"])
               ELSE IF h.st = "panic" THEN Finished(r, [st |-> "panic"])
               ELSE IF h.st = "err" THEN Finished([r EXCEPT !.stdout = z.data], h)
               ELSE [r EXCEPT !.pc = "cat_copy", !.kind = h.kind,
                              !.expected_size = h.size, !.limit = h.size,
                              !.rest = h.rest]]
    /\ inode' = Sweep(inode, temporary, store, proc')
    /\ UNCHANGED <<temporary, store, dirs, ops, returned, workfile, hdr, hw>>

\* ZlibDecoder, BufReader, the header steps, z.take(size)
CatHeader(p) ==
    /\ proc[p].pc = "cat_header"
    /\ LET r == proc[p]
           z == Inflate(inode[r.fd])
           h == CatDecodeHeader(z.data)
       IN  proc' = [proc EXCEPT ![p] =
               IF ~z.ok THEN Finished(r, [st |-> "err", err |-> "IOFailure", at |-> "decode"])
               ELSE IF h.st = "panic" THEN Finished(r, [st |-> "panic"])
               ELSE IF h.st = "err" THEN Finished(r, h)
               ELSE [r EXCEPT !.pc = "cat_copy", !.kind = h.kind,
                              !.expected_size = h.size, !.limit = h.size,
                              !.rest = h.rest]]
    /\ inode' = Sweep(inode, temporary, store, proc')
    /\ UNCHANGED <<temporary, store, dirs, ops, returned, workfile, hdr, hw>>

\* CatCopy, were the count of bytes copied not compared with the size.
CatCopyUnchecked(p, c) ==
    /\ proc[p].pc = "cat_copy"
    /\ LET r == proc[p]
           n == Min(c, Min(r.limit, Len(r.rest)))
       IN  proc' = [proc EXCEPT ![p] =
               IF n = 0 THEN Finished(r, [st |-> "ok"])
               ELSE [r EXCEPT !.got = r.got \o Take(r.rest, n),
                              !.stdout = r.stdout \o Take(r.rest, n),
                              !.rest = Drop(r.rest, n),
                              !.limit = r.limit - n]]
    /\ inode' = Sweep(inode, temporary, store, proc')
    /\ UNCHANGED <<temporary, store, dirs, ops, returned, workfile, hdr, hw>>

\* std::io::copy(&mut z, &mut stdout) a buffer of c bytes at a time, each
\* written to stdout as it is read; at the end of the bounded reader,
\* ensure!(n == size, ..) on the count of bytes copied.
CatCopy(p, c) ==
    /\ proc[p].pc = "cat_copy"
    /\ LET r == proc[p]
           n == Min(c, Min(r.limit, Len(r.rest)))
       IN  proc' = [proc EXCEPT ![p] =
               IF n = 0
               THEN IF Len(r.got) = r.expected_size
                    THEN Finished(r, [st |-> "ok"])
                    ELSE Finished(r, [st |-> "err", err |-> "SizeMismatch", at |-> "ensure size"])
               ELSE [r EXCEPT !.got = r.got \o Take(r.rest, n),
                              !.stdout = r.stdout \o Take(r.rest, n),
                              !.rest = Drop(r.rest, n),
                              !.limit = r.limit - n]]
    /\ inode' = Sweep(inode, temporary, store, proc')
    /\ UNCHANGED <<temporary, store, dirs, ops, returned, workfile, hdr, hw>>

(* ----------------------- main: Command::CatFile ------------------------ *)

\* main() with Command::CatFile { pretty_print, object_hash }
StartMain(p, pretty, key) ==
    /\ Free(p)
    /\ ops < MaxOps
    /\ ops' = ops + 1
    /\ proc' = Launch(p, [Idle EXCEPT !.pc = "main_open", !.op = "main cat-file",
                                      !.key = key, !.pretty_print = pretty])
    /\ UNCHANGED <<inode, temporary, store, dirs, returned, workfile, hdr, hw>>

\* anyhow::ensure!(pretty_print, ..), then File::open of
\* ./git/objects/{&object_hash[..2]}/{&object_hash[2..]}
MainOpen(p) ==
    /\ proc[p].pc = "main_open"
    /\ LET path == MainObjectPath(proc[p].key)
       IN  proc' = [proc EXCEPT ![p] =
               IF ~proc[p].pretty_print
               THEN Finished(@, [st |-> "err", err |-> "Usage", at |-> "ensure"])
               ELSE IF Len(proc[p].key) < 2 THEN Finished(@, [st |-> "panic"])
               ELSE IF path \in DOMAIN store
               THEN [@ EXCEPT !.pc = "main_read", !.fd = store[path]]
               ELSE Finished(@, [st |-> "err", err |-> "NotFound", at |-> "open"])]
    /\ UNCHANGED <<inode, temporary, store, dirs, ops, returned, workfile, hdr, hw>>

\* The header steps (as in cat_file::execute), buf.resize(size, 0),
\* z.read_exact(&mut buf[..]), then one more read that must find the end:
\* ensure!(n == 0, ".git/objects file had {n} trailing bytes").
MainRead(p) ==
    /\ proc[p].pc = "main_read"
    /\ LET r == proc[p]
           z == Inflate(inode[r.fd])
           h == CatDecodeHeader(z.data)
       IN  proc' = [proc EXCEPT ![p] =
               IF ~z.ok THEN Finished(r, [st |-> "err", err |-> "IOFailure", at |-> "decode"])
               ELSE IF h.st = "panic" THEN Finished(r, [st |-> "panic"])
               ELSE IF h.st = "err" THEN Finished(r, h)
               ELSE IF Len(h.rest) < h.size
               THEN Finished(r, [st |-> "err", err |-> "IOFailure", at |-> "read_exact"])
               ELSE IF Len(h.rest) > h.size
               THEN Finished(r, [st |-> "err", err |-> "SizeMismatch", at |-> "ensure trailing"])
               ELSE [r EXCEPT !.pc = "main_write", !.kind = h.kind,
                              !.expected_size = h.size, !.got = h.rest]]
    /\ inode' = Sweep(inode, temporary, store, proc')
    /\ UNCHANGED <<temporary, store, dirs, ops, returned, workfile, hdr, hw>>

\* stdout.write_all(&buf)
MainWrite(p) ==
    /\ proc[p].pc = "main_write"
    /\ proc' = [proc EXCEPT ![p] =
            Finished([proc[p] EXCEPT !.stdout = proc[p].got], [st |-> "ok"])]
    /\ inode' = Sweep(inode, temporary, store, proc')
    /\ UNCHANGED <<temporary, store, dirs, ops, returned, workfile, hdr, hw>>

CatFile == \E p \in Procs, pretty \in BOOLEAN, key \in FoundKeys : StartCatFile(p, pretty, key)

MainCatFile == \E p \in Procs, pretty \in BOOLEAN, key \in FoundKeys : StartMain(p, pretty, key)

CatStep ==
    \E p \in Procs :
        \/ CatOpen(p)
        \/ CatHeader(p)
        \/ \E c \in 1..MaxChunk : CatCopy(p, c)

MainStep ==
    \E p \in Procs :
        \/ MainOpen(p)
        \/ MainRead(p)
        \/ MainWrite(p)

NextFound == ReadFound \/ CatFile \/ MainCatFile \/ ReadStep \/ CatStep \/ MainStep

SpecFound == InitFound /\ [][NextFound]_vars

(* ------------------------------ claims --------------------------------- *)

\* The uncompressed bytes of the object (kind, payload): header || payload.
ObjectBytes(k, c) == EncodeHeader(k, Len(c)) \o c

\* `file` is the complete compressed object of key `key`.
CompleteFor(file, key) ==
    \E k \in Kinds, c \in Payloads :
        /\ KeyOf(k, c) = key
        /\ file = Compress(ObjectBytes(k, c))

EndedWrite(p) ==
    /\ proc[p].op \in {"write", "write_to_objects"}
    /\ proc[p].pc = "idle"
    /\ proc[p].res # NoRes

EndedRead(p) ==
    /\ proc[p].op = "read"
    /\ proc[p].pc = "idle"
    /\ proc[p].res # NoRes

\* C1. Atomic visibility: with one store-mode write at a time, a read of any
\* key, however its steps interleave with the write's, holds while it has the
\* file open the complete compressed object of that key, and ends either with
\* NotFound (it opened no file) or with the kind, size and payload of that key.
AtomicVisibility ==
    \A p \in Procs :
        /\ (proc[p].op = "read" /\ proc[p].fd # 0)
              => CompleteFor(inode[proc[p].fd], proc[p].key)
        /\ EndedRead(p)
              => \/ proc[p].res = [st |-> "err", err |-> "NotFound", at |-> "open"]
                 \/ \E k \in Kinds, c \in Payloads :
                        /\ KeyOf(k, c) = proc[p].key
                        /\ proc[p].res = [st |-> "ok", kind |-> k,
                                          size |-> Len(c), bytes |-> c]

\* A read issued while a write of its key was in progress has seen the object.
AtomicVisibilityWitness ==
    \E p \in Procs : EndedRead(p) /\ proc[p].during /\ proc[p].res.st = "ok"

\* C2. Content addressing under concurrent writers of distinct (kind,
\* payload) pairs: every file at a path under .git/objects is the complete
\* compressed object whose digest is that path, and a writer that returned Ok
\* has its (kind, payload) at the path of the digest it returned.
ContentAddressedUnderWriters ==
    (\A p, q \in Procs :
        (p # q /\ proc[p].op = "write_to_objects" /\ proc[q].op = "write_to_objects")
            => <<proc[p].kind, proc[p].reader>> # <<proc[q].kind, proc[q].reader>>)
    => /\ \A path \in DOMAIN store :
            \E k \in Kinds, c \in Payloads :
                /\ ObjectPath(KeyOf(k, c)) = path
                /\ inode[store[path]] = Compress(ObjectBytes(k, c))
       /\ \A p \in Procs :
            (EndedWrite(p) /\ proc[p].op = "write_to_objects" /\ proc[p].res.st = "ok")
                => LET path == ObjectPath(HexEncode(proc[p].res.hash))
                   IN  /\ path \in DOMAIN store
                       /\ inode[store[path]] =
                              Compress(ObjectBytes(proc[p].kind, proc[p].copied))

\* C3. No two attempts of write_to_objects use the same staging path.
StagingPathUnique ==
    \A p, q \in Procs :
        (p # q /\ proc[p].tmp # "" /\ proc[q].tmp # "") => proc[p].tmp # proc[q].tmp

\* C4. Once write_to_objects has returned, with Ok or with an error, the
\* staging file that attempt created is no longer on disk.
StagingFileRemoved ==
    \A p \in Procs :
        (EndedWrite(p) /\ proc[p].op = "write_to_objects" /\ proc[p].staged # 0)
            => temporary # proc[p].staged

\* C5. A store-mode write that fails on I/O while writing the header,
\* streaming the payload or finishing the compressor has renamed nothing (its
\* staging file is still at the staging path), and the paths under
\* .git/objects and their contents are what they were when it started.
FailedWriteLeavesStore ==
    \A p \in Procs :
        (/\ EndedWrite(p)
         /\ proc[p].op = "write_to_objects"
         /\ proc[p].res.st = "err"
         /\ proc[p].res.at \in {"header", "stream", "finish"})
            => /\ CanonicalView = proc[p].before
               /\ temporary = proc[p].staged

\* A write failed while streaming, beside an object stored before it.
FailedWriteWitness ==
    \E p \in Procs :
        /\ EndedWrite(p)
        /\ proc[p].op = "write_to_objects"
        /\ proc[p].res = [st |-> "err", err |-> "IOFailure", at |-> "stream"]
        /\ DOMAIN store # {}

\* C6. Round trip: a read of the key a successful write_to_objects of (K, C)
\* returned, issued after that write, yields from Object::read kind K and
\* expected_size |C|, and read to its end exactly the bytes of C.
RoundTrip ==
    \A p \in Procs :
        (proc[p].op = "read" /\ proc[p].after)
            => \E w \in returned :
                  /\ HexEncode(w.hash) = proc[p].key
                  /\ proc[p].pc = "payload"
                        => /\ proc[p].kind = w.kind
                           /\ proc[p].expected_size = Len(w.payload)
                  /\ EndedRead(p)
                        => proc[p].res = [st |-> "ok", kind |-> w.kind,
                                          size |-> Len(w.payload), bytes |-> w.payload]

\* A payload that is not empty has been read back.
RoundTripWitness ==
    \E p \in Procs :
        EndedRead(p) /\ proc[p].after /\ proc[p].res.st = "ok" /\ proc[p].res.bytes # <<>>

DeclaredSizeIsStreamed ==
    \A p \in Procs :
        (EndedWrite(p) /\ proc[p].res.st = "ok")
            => proc[p].expected_size = Len(proc[p].copied)

\* C9. A decompressed stream with no NUL byte makes the read fail with a
\* Malformed error returned to the caller, not a crash.
MissingNulIsMalformed ==
    (hdr.out # NoRes /\ 0 \notin Range(StreamOf(hdr.input)))
        => (hdr.out.st = "err" /\ hdr.out.err = "Malformed")

\* C10. Header decoding tells its failures apart. Of a stream whose header
\* ends in NUL: with no space it fails as Malformed; with a token before the
\* first space that is no kind it fails as UnknownKind, whatever the size
\* field; with a kind and a size field parse::<u64> refuses it fails as
\* InvalidSize; with a kind and a size field it takes it decodes to that kind
\* and size, and what EncodeHeader(kind, size) yields decodes to (kind, size).
HeaderDecodeDistinguishes ==
    (hdr.out # NoRes /\ hdr.input.term = <<0>>
        /\ ValidUtf8(hdr.input.tok))
    => LET i == hdr.input
           o == hdr.out
           known == \E k \in Kinds : KindToken(k) = i.tok
       IN  /\ (i.sep = <<>> /\ 32 \notin Range(i.size))
                => (o.st = "err" /\ o.err = "Malformed")
           /\ (i.sep = <<32>> /\ ~known)
                => (o.st = "err" /\ o.err = "UnknownKind")
           /\ (i.sep = <<32>> /\ known /\ i.size \in BadSizes)
                => (o.st = "err" /\ o.err = "InvalidSize")
           /\ (i.sep = <<32>> /\ known /\ i.size \in GoodSizes)
                => (o.st = "ok" /\ KindToken(o.kind) = i.tok /\ o.rest = i.tail)
           /\ \A k \in Kinds, n \in 0..MaxSize :
                (i.sep = <<32>> /\ i.tok = KindToken(k) /\ i.size = Decimal(n))
                    => /\ StreamOf(i) = EncodeHeader(k, n) \o i.tail
                       /\ o.st = "ok" /\ o.kind = k /\ o.size = n
           /\ (i.sep = <<32>> /\ known /\ i.size = <<48, 48, 55>>) => o.size = 7
           /\ (i.sep = <<32>> /\ known /\ i.size = <<43, 53>>) => o.size = 5

\* "widget abc\0" has failed as UnknownKind.
HeaderDecodeWitness ==
    /\ hdr.input.tok = <<119, 105, 100, 103, 101, 116>>
    /\ hdr.input.sep = <<32>>
    /\ hdr.input.size = <<97, 98, 99>>
    /\ hdr.input.term = <<0>>
    /\ hdr.out.st = "err"
    /\ hdr.out.err = "UnknownKind"

\* What follows the header in the stored file, when the header ends in NUL.
FoundPayload == hdr.input.tail

\* C11: the reader Object::read returns hands out at most the declared size S
\* of payload bytes, whatever the reads asked for, and the first S bytes of the
\* payload, no more, when read to its end over a stream holding at least S.
BoundedRead ==
    \A p \in Procs :
        proc[p].op = "read" =>
            /\ proc[p].pc = "payload" =>
                    /\ Len(proc[p].got) <= proc[p].expected_size
                    /\ proc[p].got = Take(FoundPayload, Len(proc[p].got))
            /\ (proc[p].pc = "idle" /\ proc[p].res.st = "ok") =>
                    /\ Len(proc[p].res.bytes) <= proc[p].res.size
                    /\ Len(FoundPayload) >= proc[p].res.size =>
                            proc[p].res.bytes = Take(FoundPayload, proc[p].res.size)

\* A stream longer than declared was read to the end of the reader.
BoundedReadWitness ==
    \E p \in Procs :
        /\ proc[p].op = "read"
        /\ proc[p].pc = "idle"
        /\ proc[p].res.st = "ok"
        /\ proc[p].res.size >= 1
        /\ Len(FoundPayload) > proc[p].res.size
        /\ proc[p].res.bytes = Take(FoundPayload, proc[p].res.size)

\* The command of invocation p ran on the stored key with -p and has ended.
Ran(p, op) ==
    /\ proc[p].op = op
    /\ proc[p].pc = "idle"
    /\ proc[p].pretty_print
    /\ proc[p].key = StoredKey

\* The object file lies at `path`, as a zlib stream (whole or cut short).
FoundAt(path) ==
    /\ path \in DOMAIN store
    /\ inode[store[path]] \in {FoundFile(hdr.input, "whole"), FoundFile(hdr.input, "cut")}

\* The stored stream is "blob <n>\0" and a payload, of n bytes or not.
BlobDeclaring(n) ==
    /\ hdr.input.tok = KindToken("Blob")
    /\ hdr.input.sep = <<32>>
    /\ hdr.input.size = Decimal(n)
    /\ hdr.input.term = <<0>>

FoundSizes == 0..(MaxLen + 1)

PublishedBlobAtCanonicalPath ==
    /\ ObjectPath(StoredKey) \in DOMAIN store
    /\ inode[store[ObjectPath(StoredKey)]] = Compress(ObjectBytes("Blob", FoundPayload))

\* C13: cat-file -p with the key of a well-formed Blob at its canonical path
\* .git/objects/<2 hex>/<38 hex> writes exactly the payload bytes to stdout,
\* nothing added, and succeeds.
WellFormedBlobPrinted ==
    \A p \in Procs :
        /\ Ran(p, "cat-file") \/ Ran(p, "main cat-file")
        /\ PublishedBlobAtCanonicalPath
        => /\ proc[p].res.st = "ok"
           /\ proc[p].stdout = FoundPayload

\* The files the program works on: the staging file, the object files, the
\* directories of .git/objects.
StoreFiles == <<inode, temporary, store, dirs>>

\* C14: hash-object without -w creates, changes, renames and deletes no file:
\* every step that changes the staging file or anything under .git/objects is
\* a step of a write_to_objects (hash-object -w) in progress.
DiscardModeLeavesStore ==
    [][StoreFiles' # StoreFiles =>
          \E p \in Procs :
              /\ proc[p].op = "write_to_objects"
              /\ proc[p].pc # "idle"
              /\ proc'[p] # proc[p]]_vars

\* hash-object without -w has returned the digest of a file of one byte.
DiscardModeWitness ==
    \E p \in Procs :
        /\ proc[p].op = "write"
        /\ proc[p].from_file
        /\ proc[p].pc = "idle"
        /\ proc[p].res.st = "ok"
        /\ Len(proc[p].copied) = 1

\* Invocation p stored an object that was in the store when it started.
StoredAgain(p) ==
    /\ EndedWrite(p)
    /\ proc[p].op = "write_to_objects"
    /\ proc[p].res.st = "ok"
    /\ ObjectPath(KeyOf(proc[p].kind, proc[p].copied)) \in DOMAIN proc[p].before

\* C15 as stated: the file at a canonical path is created once and is never
\* replaced or changed afterwards.
CanonicalFileNeverReplaced ==
    [][\A path \in DOMAIN store :
          /\ path \in DOMAIN store'
          /\ store'[path] = store[path]
          /\ inode'[store[path]] = inode[store[path]]]_vars

\* C15, amended: a canonical path, once there, stays and holds the same bytes
\* ever after (a later write of the object replaces the file by one of the
\* same content); and a store-mode write of an object already stored returns
\* the digest it is stored under and leaves the contents of every canonical
\* path as they were, with no staging file.
WriteOnceIdempotent ==
    /\ [][\A path \in DOMAIN store :
             /\ path \in DOMAIN store'
             /\ inode'[store'[path]] = inode[store[path]]]_vars
    /\ [](\A p \in Procs :
             StoredAgain(p) =>
                 /\ HexEncode(proc[p].res.hash) = KeyOf(proc[p].kind, proc[p].copied)
                 /\ CanonicalView = proc[p].before
                 /\ temporary = 0)

\* An object of one byte was stored a second time.
WriteOnceWitness ==
    \E p \in Procs :
        /\ StoredAgain(p)
        /\ Len(proc[p].copied) = 1
        /\ CanonicalView = proc[p].before

\* C16: Object::read and cat-file given a key that is not of exactly 40
\* characters open no file and return an error, without crashing.
OnlyFullLengthKeys ==
    \A p \in Procs :
        (proc[p].op \in {"read", "cat-file"} /\ Len(proc[p].key) # 40) =>
            /\ proc[p].fd = 0
            /\ (proc[p].pc = "idle" /\ proc[p].res # NoRes) => proc[p].res.st = "err"

\* C17: whatever prefixes the writer below takes and whichever calls fail, the
\* bytes the hasher was fed are the prefixes taken, in order: nothing of a
\* failed call, nothing not taken, and no byte twice when the rest is retried.
HashedIsTaken == hw.hasher = hw.taken

\* A write was taken in part and its rest retried, and a write failed.
HashedIsTakenWitness ==
    /\ hw.st = "idle"
    /\ hw.short
    /\ hw.failed
    /\ Len(hw.taken) >= 2
    /\ hw.hasher = hw.taken

\* The command of invocation p ended on a failure of the header: the panic on
\* a missing NUL, or an error of to_str, split_once, the kind or the size.
HeaderFailure(p) ==
    /\ proc[p].op \in {"read", "cat-file"}
    /\ proc[p].pc = "idle"
    /\ \/ proc[p].res.st = "panic"
       \/ /\ proc[p].res.st = "err"
          /\ proc[p].res.at \in {"to_str", "split_once", "match kind", "parse"}

\* C18: when cat-file or Object::read ends on a header failure, no payload
\* byte has been read from the bounded reader nor written to stdout.
HeaderFailurePrecedesOutput ==
    \A p \in Procs :
        HeaderFailure(p) => proc[p].got = <<>> /\ proc[p].stdout = <<>>

\* cat-file refused the size field of a stream that has bytes after its header.
HeaderFailureWitness ==
    \E p \in Procs :
        /\ Ran(p, "cat-file")
        /\ HeaderFailure(p)
        /\ proc[p].res.st = "err"
        /\ proc[p].res.at = "parse"
        /\ FoundPayload # <<>>
        /\ proc[p].stdout = <<>>

\* C19: cat-file -p on a Blob whose stream holds more payload bytes than the
\* declared size S ends in a size-mismatch error, never in success.
OverlongBlobRejected ==
    \A p \in Procs, n \in FoundSizes :
        /\ \/ Ran(p, "cat-file") /\ FoundAt(ObjectPath(StoredKey))
           \/ Ran(p, "main cat-file") /\ FoundAt(MainObjectPath(StoredKey))
        /\ BlobDeclaring(n)
        /\ Len(FoundPayload) > n
        => /\ proc[p].res.st = "err"
           /\ proc[p].res.err = "SizeMismatch"

====
